---- MODULE Spec2Model ----
(***************************************************************************)
(* Model of lib/promscrape/discovery/kubernetes/api.go: the apiConfig      *)
(* cache (getAPIConfig over discoveryutils.ConfigMap), the construction    *)
(* pipeline (newAPIConfig, newHostClient) and the fetch path               *)
(* (getAPIResponse).                                                       *)
(*                                                                         *)
(* Texts that the code inspects (server URLs, hosts, ports) are sequences  *)
(* of one-character strings; texts it only passes around (error messages,  *)
(* file paths, tokens) are sequences of opaque parts.                      *)
(***************************************************************************)
EXTENDS Integers, Sequences, FiniteSets, TLC

(***************************************************************************)
(* Bounds of the model.                                                    *)
(***************************************************************************)
\* number of goroutines calling getAPIConfig concurrently
NumProcs == 2
\* cap on the number of newAPIConfig runs per *SDConfig
MaxBuilds == 2
\* longest response payload (bytes) drawn for getAPIResponse
MaxBody == 2

(***************************************************************************)
(* Text helpers.                                                           *)
(***************************************************************************)
\* the nil pointer, whatever its type
Nil == [nil |-> TRUE]
NoErr == <<>>

RECURSIVE IndexOf(_, _, _)
\* first position >= i at which sub occurs in s, 0 if none (bytes.Index)
IndexOf(s, sub, i) ==
    IF i + Len(sub) - 1 > Len(s) THEN 0
    ELSE IF SubSeq(s, i, i + Len(sub) - 1) = sub THEN i
    ELSE IndexOf(s, sub, i + 1)

\* strings.Contains
Contains(s, sub) == IndexOf(s, sub, 1) # 0

\* lowercaseBytes of fasthttp: ASCII upper case to lower case, others kept
LowerChar(c) ==
    CASE c = "A" -> "a"
      [] c = "H" -> "h"
      [] c = "T" -> "t"
      [] c = "P" -> "p"
      [] c = "S" -> "s"
      [] OTHER -> c

Lower(s) == [i \in 1..Len(s) |-> LowerChar(s[i])]

\* fmt's %q of a text: the text between double quotes
Quote(s) == <<"\"">> \o s \o <<"\"">>

(***************************************************************************)
(* The process environment read by the construction pipeline: the two      *)
(* environment variables (the empty text when unset, as os.Getenv returns) *)
(* and the set of files that can be read.                                  *)
(***************************************************************************)
CAFilePath == "/var/run/secrets/kubernetes.io/serviceaccount/ca.crt"
TokenFilePath == "/var/run/secrets/kubernetes.io/serviceaccount/token"
CfgTokenFile == "token.txt"

HostVar == "KUBERNETES_SERVICE_HOST"
PortVar == "KUBERNETES_SERVICE_PORT"

\* os.Getenv
Getenv(env, name) == IF name = HostVar THEN env.host ELSE env.port

(***************************************************************************)
(* promauth.NewConfig and Config.NewTLSConfig (lib/promauth).              *)
(***************************************************************************)
\* path of a configured file: an absolute path as it is, a relative one
\* under baseDir
FilePath(baseDir, path) ==
    IF path \in {CAFilePath, TokenFilePath} THEN <<path>> ELSE <<baseDir, path>>

\* what reading a readable file yields
FileContent(path) == <<"content of", path>>

\* promauth.NewConfig(baseDir, basicAuth, bearerToken, bearerTokenFile, tlsConfig):
\* [err, ac], ac = Nil on error
NewConfig(baseDir, basicAuth, bearerToken, bearerTokenFile, tlsConfig, files) ==
    LET tokenPath == FilePath(baseDir, bearerTokenFile)
        caPath == FilePath(baseDir, tlsConfig.CAFile)
        token == IF bearerTokenFile # "" THEN FileContent(tokenPath)
                 ELSE IF bearerToken # "" THEN <<bearerToken>> ELSE <<>>
        fail(msg) == [err |-> msg, ac |-> Nil]
    IN  IF bearerToken # "" /\ bearerTokenFile # ""
        THEN fail(<<"both bearer_token and bearer_token_file are set">>)
        ELSE IF bearerTokenFile # "" /\ tokenPath \notin files
        THEN fail(<<"cannot read bearer token from", bearerTokenFile>>)
        ELSE IF basicAuth # Nil /\ token # <<>>
        THEN fail(<<"cannot use both basic_auth and bearer_token">>)
        ELSE IF tlsConfig # Nil /\ tlsConfig.CAFile # "" /\ caPath \notin files
        THEN fail(<<"cannot read CA file", tlsConfig.CAFile>>)
        ELSE [err |-> NoErr,
              ac  |-> [Authorization |->
                           IF basicAuth # Nil THEN <<"Basic", basicAuth>>
                           ELSE IF token # <<>> THEN <<"Bearer">> \o token
                           ELSE <<>>,
                       TLSRootCA |->
                           IF tlsConfig # Nil /\ tlsConfig.CAFile # ""
                           THEN FileContent(caPath) ELSE <<>>]]

\* Config.NewTLSConfig
NewTLSConfig(ac) == [RootCAs |-> ac.TLSRootCA]

(***************************************************************************)
(* net.JoinHostPort and the parts of fasthttp.URI that newHostClient uses. *)
(***************************************************************************)
\* a JoinHostPort that never brackets the host
JoinHostPortPlain(host, port) == host \o <<":">> \o port

\* net.JoinHostPort: a host with a colon is taken as an IPv6 literal
JoinHostPort(host, port) ==
    IF Contains(host, <<":">>) THEN <<"[">> \o host \o <<"]", ":">> \o port
    ELSE host \o <<":">> \o port

\* the text s from position i on
From(s, i) == SubSeq(s, i, Len(s))

\* fasthttp.URI.Update on a fresh URI, then Scheme() and Host()
URIParse(s) ==
    LET n == IndexOf(s, <<"/", "/">>, 1)
    IN  IF n = 0 THEN [scheme |-> <<"h","t","t","p">>, host |-> <<>>]
        ELSE
        LET raw == SubSeq(s, 1, n - 1)
            sch == IF raw # <<>> /\ raw[Len(raw)] = ":"
                   THEN SubSeq(raw, 1, Len(raw) - 1) ELSE raw
            rest == From(s, n + 2)
            sl == IndexOf(rest, <<"/">>, 1)
            qm == IndexOf(rest, <<"?">>, 1)
            h == IF sl # 0 THEN SubSeq(rest, 1, sl - 1)
                 ELSE IF qm # 0 THEN SubSeq(rest, 1, qm - 1)
                 ELSE rest
        IN  IF Contains(raw, <<"/">>)
            THEN [scheme |-> <<"h","t","t","p">>, host |-> <<>>]
            ELSE [scheme |-> IF sch = <<>> THEN <<"h","t","t","p">> ELSE Lower(sch),
                  host |-> Lower(h)]

(***************************************************************************)
(* newHostClient and newAPIConfig.                                         *)
(***************************************************************************)
hcFail(msg) == [err |-> msg, hc |-> Nil, ac |-> Nil, apiServer |-> Nil, hostPort |-> Nil]

\* lines 128-158: the client for a known server and auth config
hostClientFor(apiServer, ac) ==
    LET u == URIParse(apiServer)
        isTLS == u.scheme = <<"h","t","t","p","s">>
        tlsCfg == IF isTLS /\ ac # Nil THEN NewTLSConfig(ac) ELSE Nil
        hostPort == IF ~Contains(u.host, <<":">>)
                    THEN JoinHostPort(u.host, IF isTLS THEN <<"4","4","3">> ELSE <<"8","0">>)
                    ELSE u.host
    IN  [err |-> NoErr,
         hc |-> [Addr |-> hostPort, IsTLS |-> isTLS, TLSConfig |-> tlsCfg],
         ac |-> ac,
         apiServer |-> apiServer,
         hostPort |-> hostPort]

\* a newHostClient that tests the port variable before the host variable
newHostClientPortFirst(apiServer, ac, env) ==
    IF Len(apiServer) = 0
    THEN LET host == Getenv(env, HostVar)
             port == Getenv(env, PortVar)
             acNew == NewConfig("/", Nil, "", TokenFilePath, [CAFile |-> CAFilePath], env.files)
         IN  IF Len(port) = 0
             THEN hcFail(<<"cannot find", PortVar, "env var; it must be defined when running in k8s",
                           HostVar, "=">> \o Quote(host))
             ELSE IF Len(host) = 0
             THEN hcFail(<<"cannot find", HostVar, "env var; it must be defined when running in k8s">>)
             ELSE IF acNew.err # NoErr
             THEN hcFail(<<"cannot initialize service account auth:">> \o acNew.err)
             ELSE hostClientFor(<<"h","t","t","p","s",":","/","/">> \o JoinHostPort(host, port), acNew.ac)
    ELSE hostClientFor(apiServer, ac)

\* a newHostClient that takes the in-cluster branch whenever the host
\* variable is set
newHostClientEnvFirst(apiServer, ac, env) ==
    IF Len(apiServer) = 0 \/ Len(Getenv(env, HostVar)) # 0
    THEN newHostClientPortFirst(<<>>, ac, env)
    ELSE hostClientFor(apiServer, ac)

newHostClient(apiServer, ac, env) ==
    IF Len(apiServer) = 0
    THEN LET host == Getenv(env, HostVar)
             port == Getenv(env, PortVar)
             acNew == NewConfig("/", Nil, "", TokenFilePath, [CAFile |-> CAFilePath], env.files)
         IN  IF Len(host) = 0
             THEN hcFail(<<"cannot find", HostVar, "env var; it must be defined when running in k8s">>)
             ELSE IF Len(port) = 0
             THEN hcFail(<<"cannot find", PortVar, "env var; it must be defined when running in k8s",
                           HostVar, "=">> \o Quote(host))
             ELSE IF acNew.err # NoErr
             THEN hcFail(<<"cannot initialize service account auth:">> \o acNew.err)
             ELSE hostClientFor(<<"h","t","t","p","s",":","/","/">> \o JoinHostPort(host, port), acNew.ac)
    ELSE hostClientFor(apiServer, ac)

cfgFail(msg) == [err |-> msg, cfg |-> Nil]

\* a newAPIConfig that, with no apiServer configured, goes on to the client
\* although the configuration's own auth settings did not parse
newAPIConfigLenient(sdc, baseDir, env) ==
    LET a == NewConfig(baseDir, sdc.BasicAuth, sdc.BearerToken, sdc.BearerTokenFile,
                       sdc.TLSConfig, env.files)
        hcv == newHostClient(sdc.APIServer, a.ac, env)
    IN  IF a.err # NoErr /\ Len(sdc.APIServer) # 0
        THEN cfgFail(<<"cannot parse auth config:">> \o a.err)
        ELSE IF hcv.err # NoErr
        THEN cfgFail(<<"cannot create HTTP client for">> \o Quote(sdc.APIServer) \o <<":">> \o hcv.err)
        ELSE [err |-> NoErr,
              cfg |-> [client |-> hcv.hc,
                       server |-> hcv.apiServer,
                       hostPort |-> hcv.hostPort,
                       authConfig |-> hcv.ac,
                       namespaces |-> sdc.Namespaces,
                       selectors |-> sdc.Selectors]]

newAPIConfig(sdc, baseDir, env) ==
    LET a == NewConfig(baseDir, sdc.BasicAuth, sdc.BearerToken, sdc.BearerTokenFile,
                       sdc.TLSConfig, env.files)
        hcv == newHostClient(sdc.APIServer, a.ac, env)
    IN  IF a.err # NoErr
        THEN cfgFail(<<"cannot parse auth config:">> \o a.err)
        ELSE IF hcv.err # NoErr
        THEN cfgFail(<<"cannot create HTTP client for">> \o Quote(sdc.APIServer) \o <<":">> \o hcv.err)
        ELSE [err |-> NoErr,
              cfg |-> [client |-> hcv.hc,
                       server |-> hcv.apiServer,
                       hostPort |-> hcv.hostPort,
                       authConfig |-> hcv.ac,
                       namespaces |-> sdc.Namespaces,
                       selectors |-> sdc.Selectors]]

(***************************************************************************)
(* getAPIResponse.  A response body is a sequence of bytes.                *)
(***************************************************************************)
\* fasthttp.StatusOK
StatusOK == 200

\* the nil []byte
NilData == <<-1>>

RECURSIVE SumBytes(_)
SumBytes(b) == IF b = <<>> THEN 0 ELSE b[1] + SumBytes(Tail(b))

\* the gzip trailer's check value of the payload (stands for its CRC-32)
Checksum(b) == SumBytes(b) % 256

\* what a server sends for payload b with Content-Encoding: gzip: the magic
\* bytes, one stored block (final-block marker, length, its complement, the
\* bytes), then the check value and the length
Gzip(b) == <<31, 139>> \o <<1, Len(b), 255 - Len(b)>> \o b \o <<Checksum(b), Len(b)>>

\* fasthttp.AppendGunzipBytes(nil, body): [err, data]
Gunzip(s) ==
    LET n == Len(s)
        bad(msg) == [err |-> msg, data |-> NilData]
    IN  IF n < 7 THEN bad("unexpected EOF")
        ELSE IF SubSeq(s, 1, 2) # <<31, 139>> THEN bad("gzip: invalid header")
        ELSE IF s[3] # 1 \/ s[4] + s[5] # 255 \/ s[4] # n - 7 THEN bad("flate: corrupt input")
        ELSE LET b == SubSeq(s, 6, n - 2)
             IN  IF s[n - 1] # Checksum(b) \/ s[n] # Len(b)
                 THEN bad("gzip: invalid checksum")
                 ELSE [err |-> "", data |-> b]

\* joinSelectors(role, namespaces, selectors): the query string, in parts
RECURSIVE NamespaceFields(_)
NamespaceFields(namespaces) ==
    IF namespaces = <<>> THEN <<>>
    ELSE <<"metadata.namespace=" \o namespaces[1]>> \o NamespaceFields(Tail(namespaces))

RECURSIVE RoleSelectors(_, _, _)
RoleSelectors(role, selectors, kind) ==
    IF selectors = <<>> THEN <<>>
    ELSE LET sel == selectors[1]
             v == IF kind = "label" THEN sel.Label ELSE sel.Field
         IN  (IF sel.Role = role /\ v # "" THEN <<v>> ELSE <<>>)
             \o RoleSelectors(role, Tail(selectors), kind)

joinSelectors(role, namespaces, selectors) ==
    LET labels == RoleSelectors(role, selectors, "label")
        fields == NamespaceFields(namespaces) \o RoleSelectors(role, selectors, "field")
    IN  (IF labels # <<>> THEN <<"labelSelector=">> \o labels ELSE <<>>)
        \o (IF labels # <<>> /\ fields # <<>> THEN <<"&">> ELSE <<>>)
        \o (IF fields # <<>> THEN <<"fieldSelector=">> \o fields ELSE <<>>)

\* lines 58-62
requestURLOf(cfg, role, path) ==
    LET query == joinSelectors(role, cfg.namespaces, cfg.selectors)
    IN  cfg.server \o (IF Len(query) > 0 THEN path \o <<"?">> \o query ELSE path)

\* a request composition that appends "?" and the query unconditionally
requestOfAlwaysQuery(cfg, role, path) ==
    LET query == joinSelectors(role, cfg.namespaces, cfg.selectors)
    IN  [uri  |-> path \o <<"?">> \o query,
         host |-> cfg.hostPort,
         acceptEncoding |-> "gzip",
         authorization |->
             IF cfg.authConfig # Nil /\ cfg.authConfig.Authorization # <<>>
             THEN cfg.authConfig.Authorization ELSE <<>>]

\* lines 63-71: the request handed to the client (an authorization of <<>>
\* is a request without the Authorization header)
requestOf(cfg, role, path) ==
    LET query == joinSelectors(role, cfg.namespaces, cfg.selectors)
    IN  [uri  |-> IF Len(query) > 0 THEN path \o <<"?">> \o query ELSE path,
         host |-> cfg.hostPort,
         acceptEncoding |-> "gzip",
         authorization |->
             IF cfg.authConfig # Nil /\ cfg.authConfig.Authorization # <<>>
             THEN cfg.authConfig.Authorization ELSE <<>>]

fetchFail(e) == [data |-> NilData, err |-> e]

\* a getAPIResponse that never decompresses
getAPIResponseRaw(cfg, role, path, resp) ==
    LET requestURL == requestURLOf(cfg, role, path)
    IN  IF resp.kind = "neterr"
        THEN fetchFail([msg |-> "cannot fetch", url |-> requestURL, cause |-> "timeout"])
        ELSE IF resp.status # StatusOK
        THEN fetchFail([msg |-> "unexpected status code returned", url |-> requestURL,
                        status |-> resp.status, expecting |-> StatusOK, body |-> resp.body])
        ELSE [data |-> resp.body, err |-> Nil]

\* lines 74-92: what getAPIResponse returns once requestURL is composed and
\* cfg.client.Do has yielded resp
responseOf(requestURL, resp) ==
    LET gz == Gunzip(resp.body)
        data == IF resp.contentEncoding = "gzip" THEN gz.data ELSE resp.body
    IN  IF resp.kind = "neterr"
        THEN fetchFail([msg |-> "cannot fetch", url |-> requestURL, cause |-> "timeout"])
        ELSE IF resp.contentEncoding = "gzip" /\ gz.err # ""
        THEN fetchFail([msg |-> "cannot ungzip response", url |-> requestURL, cause |-> gz.err])
        ELSE IF resp.status # StatusOK
        THEN fetchFail([msg |-> "unexpected status code returned", url |-> requestURL,
                        status |-> resp.status, expecting |-> StatusOK, body |-> data])
        ELSE [data |-> data, err |-> Nil]

\* getAPIResponse(cfg, role, path), resp being what cfg.client.Do yields
getAPIResponse(cfg, role, path, resp) ==
    responseOf(requestURLOf(cfg, role, path), resp)

\* a request composition that leaves the composed path in the shared context
cfgAfterComposeAppend(cfg, role, path) ==
    [cfg EXCEPT !.server = requestURLOf(cfg, role, path)]

\* lines 58-71: what composing a request leaves in *cfg.  path is a by-value
\* parameter, query and requestURL are locals, u and req are stack values;
\* cfg's fields are only read.
cfgAfterCompose(cfg, role, path) == cfg

(***************************************************************************)
(* The *SDConfig objects the callers hold.  c1a and c1b are two objects    *)
(* built independently with equal fields (in-cluster mode, no explicit     *)
(* auth); c3 differs (explicit server, bearer token).                      *)
(***************************************************************************)
Ptrs == {"c1a", "c1b", "c3"}

InClusterSDC ==
    [APIServer |-> <<>>, BasicAuth |-> Nil, BearerToken |-> "", BearerTokenFile |-> "",
     TLSConfig |-> Nil, Namespaces |-> <<"ns1">>, Selectors |-> <<>>]

ExplicitSDC ==
    [APIServer |-> <<"h","t","t","p","s",":","/","/","a">>, BasicAuth |-> Nil,
     BearerToken |-> "tok", BearerTokenFile |-> "",
     TLSConfig |-> Nil, Namespaces |-> <<>>, Selectors |-> <<>>]

\* the fields of the object a pointer refers to
SDC(p) == IF p = "c3" THEN ExplicitSDC ELSE InClusterSDC

BaseDir == "/cfg"

Procs == 1..NumProcs

VARIABLES
    env,        \* environment variables and readable files of the process
    pc,         \* per goroutine: where it is inside getAPIConfig
    arg,        \* per goroutine: the sdc of its current call
    pending,    \* per goroutine: what its run of newAPIConfig returned
    ret,        \* per goroutine: what getAPIConfig returns to it
    store,      \* configMap: key -> entry
    heap,       \* the apiConfig objects allocated so far; a *apiConfig is an index
    builds,     \* history: runs of newAPIConfig per sdc
    succ,       \* history: runs of newAPIConfig per sdc that produced an apiConfig
    returned,   \* history: the *apiConfig values getAPIConfig returned per sdc
    failed,     \* history: getAPIConfig returned an error for the sdc
    fresh,      \* history: the call began with the environment ready and no attempt to wait for
    buildIn, buildOut,   \* one application of newHostClient / newAPIConfig
    fetchIn, fetchOut,   \* one application of getAPIResponse
    ctx,        \* the *apiConfig the fetching goroutines share
    fpc,        \* per goroutine: where it is inside getAPIResponse
    flocal      \* per goroutine: the local variables of its getAPIResponse

vars == <<env, pc, arg, pending, ret, store, heap, builds, succ, returned, failed, fresh,
          buildIn, buildOut, fetchIn, fetchOut, ctx, fpc, flocal>>

cacheVars == <<pc, arg, pending, ret, store, heap, builds, succ, returned, failed, fresh>>
shareVars == <<ctx, fpc, flocal>>
probeVars == <<buildIn, buildOut, fetchIn, fetchOut, shareVars>>

Unused == [unused |-> TRUE]

\* a goroutine outside getAPIConfig has no argument and no result
NoArg == "none"
NoRet == [cfg |-> 0, err |-> NoErr]

(***************************************************************************)
(* getAPIConfig over configMap.Get.                                        *)
(***************************************************************************)
\* a getAPIConfig that hands one fixed key to configMap.Get
GetKeyShared(p) == "configMap"

\* line 30: the key handed to configMap.Get is sdc itself, a *SDConfig
GetKey(p) == p

\* line 30: the closure handed to configMap.Get
GetBuilder(p, e) == newAPIConfig(SDC(p), BaseDir, e)

\* a getAPIConfig whose error test is inverted
getAPIConfigResultInverted(v, err) ==
    IF err = NoErr THEN [cfg |-> 0, err |-> err] ELSE [cfg |-> v, err |-> NoErr]

\* lines 31-34: what getAPIConfig makes of Get's (v, err)
getAPIConfigResult(v, err) ==
    IF err # NoErr THEN [cfg |-> 0, err |-> err] ELSE [cfg |-> v, err |-> NoErr]

Keys == {GetKey(p) : p \in Ptrs}

AbsentEntry == [state |-> "absent", inst |-> 0, err |-> NoErr]

\* ConfigMap.Get, lookup: what a caller finds under its key
GetLookup(entry) ==
    CASE entry.state = "ok"       -> "hit"
      [] entry.state = "err"      -> "hiterr"
      [] entry.state = "inflight" -> "wait"
      [] OTHER                    -> "build"

\* ConfigMap.Get, completion: the entry left behind by a finished attempt
GetStoreResult(inst, err) ==
    IF err = NoErr THEN [state |-> "ok", inst |-> inst, err |-> NoErr]
    ELSE AbsentEntry

EnvReady(e) ==
    /\ e.host # <<>> /\ e.port # <<>>
    /\ {<<CAFilePath>>, <<TokenFilePath>>} \subseteq e.files

\* a goroutine enters getAPIConfig(sdc, baseDir) and Get looks its key up
Call(t, p) ==
    /\ pc[t] = "idle"
    /\ LET k == GetKey(p)
           found == GetLookup(store[k])
       IN  /\ found = "build" => builds[p] < MaxBuilds
           /\ arg' = [arg EXCEPT ![t] = p]
           /\ pc' = [pc EXCEPT ![t] =
                        CASE found = "build" -> "building"
                          [] found = "wait"  -> "waiting"
                          [] OTHER           -> "done"]
           /\ store' = IF found = "build"
                       THEN [store EXCEPT ![k] = [state |-> "inflight", inst |-> 0, err |-> NoErr]]
                       ELSE store
           /\ ret' = IF found \in {"hit", "hiterr"}
                     THEN [ret EXCEPT ![t] = getAPIConfigResult(store[k].inst, store[k].err)]
                     ELSE ret
           /\ fresh' = [fresh EXCEPT ![t] = EnvReady(env) /\ found # "wait"]
    /\ UNCHANGED <<env, pending, heap, builds, succ, returned, failed, probeVars>>

\* the goroutine that found no entry runs the closure, i.e. newAPIConfig
Construct(t) ==
    /\ pc[t] = "building"
    /\ pending' = [pending EXCEPT ![t] = GetBuilder(arg[t], env)]
    /\ builds' = [builds EXCEPT ![arg[t]] = @ + 1]
    /\ succ' = IF pending'[t].err = NoErr THEN [succ EXCEPT ![arg[t]] = @ + 1] ELSE succ
    /\ pc' = [pc EXCEPT ![t] = "built"]
    /\ UNCHANGED <<env, arg, ret, store, heap, returned, failed, fresh, probeVars>>

\* the attempt completes: Get records it and hands its outcome to the
\* builder and to every goroutine waiting on the same key
Publish(t) ==
    /\ pc[t] = "built"
    /\ LET k == GetKey(arg[t])
           r == pending[t]
           ok == r.err = NoErr
           inst == IF ok THEN Len(heap) + 1 ELSE 0
           served == {t} \cup {w \in Procs : pc[w] = "waiting" /\ GetKey(arg[w]) = k}
       IN  /\ heap' = IF ok THEN Append(heap, r.cfg) ELSE heap
           /\ store' = [store EXCEPT ![k] = GetStoreResult(inst, r.err)]
           /\ ret' = [w \in Procs |-> IF w \in served
                                      THEN getAPIConfigResult(inst, r.err) ELSE ret[w]]
           /\ pc' = [w \in Procs |-> IF w \in served THEN "done" ELSE pc[w]]
    /\ pending' = [pending EXCEPT ![t] = Unused]
    /\ UNCHANGED <<env, arg, builds, succ, returned, failed, fresh, probeVars>>

\* getAPIConfig returns to its caller
Return(t) ==
    /\ pc[t] = "done"
    /\ pc' = [pc EXCEPT ![t] = "idle"]
    /\ returned' = IF ret[t].cfg # 0
                   THEN [returned EXCEPT ![arg[t]] = @ \cup {ret[t].cfg}]
                   ELSE returned
    /\ failed' = IF ret[t].err # NoErr
                 THEN [failed EXCEPT ![arg[t]] = TRUE]
                 ELSE failed
    /\ arg' = [arg EXCEPT ![t] = NoArg]
    /\ ret' = [ret EXCEPT ![t] = NoRet]
    /\ fresh' = [fresh EXCEPT ![t] = FALSE]
    /\ UNCHANGED <<env, pending, store, heap, builds, succ, probeVars>>

(***************************************************************************)
(* The environment becomes ready while the process runs: the variables get *)
(* set, the service-account files get mounted.                             *)
(***************************************************************************)
SetEnv ==
    /\ env.host = <<>> /\ env.port = <<>>
    /\ env' = [env EXCEPT !.host = <<"a">>, !.port = <<"8">>]
    /\ UNCHANGED <<cacheVars, probeVars>>

MountFiles ==
    /\ env.files = {}
    /\ env' = [env EXCEPT !.files = {<<CAFilePath>>, <<TokenFilePath>>}]
    /\ UNCHANGED <<cacheVars, probeVars>>

CacheInit ==
    /\ pc = [t \in Procs |-> "idle"]
    /\ arg = [t \in Procs |-> NoArg]
    /\ pending = [t \in Procs |-> Unused]
    /\ ret = [t \in Procs |-> NoRet]
    /\ store = [k \in Keys |-> AbsentEntry]
    /\ heap = <<>>
    /\ builds = [p \in Ptrs |-> 0]
    /\ succ = [p \in Ptrs |-> 0]
    /\ returned = [p \in Ptrs |-> {}]
    /\ failed = [p \in Ptrs |-> FALSE]
    /\ fresh = [t \in Procs |-> FALSE]

\* no goroutine is inside getAPIResponse
ShareIdle ==
    /\ ctx = Unused
    /\ fpc = [t \in Procs |-> "idle"]
    /\ flocal = [t \in Procs |-> Unused]

ProbeIdle ==
    /\ buildIn = Unused /\ buildOut = Unused
    /\ fetchIn = Unused /\ fetchOut = Unused
    /\ ShareIdle

Init ==
    /\ env = [host |-> <<>>, port |-> <<>>, files |-> {}]
    /\ CacheInit
    /\ ProbeIdle

Next ==
    \/ \E t \in Procs, p \in Ptrs : Call(t, p)
    \/ \E t \in Procs : Construct(t)
    \/ \E t \in Procs : Publish(t)
    \/ \E t \in Procs : Return(t)
    \/ SetEnv
    \/ MountFiles

Spec == Init /\ [][Next]_vars

(***************************************************************************)
(* Properties of the cache.                                                *)
(***************************************************************************)
InFlight(t) == pc[t] \in {"building", "built"}

\* the sdc objects whose fields equal those of p: the identity of p
SameIdentity(p) == {q \in Ptrs : SDC(q) = SDC(p)}

RECURSIVE SumOver(_, _)
SumOver(f, S) == IF S = {} THEN 0
                 ELSE LET x == CHOOSE y \in S : TRUE IN f[x] + SumOver(f, S \ {x})

\* every *apiConfig handed out so far for the sdc objects in S
HandedOut(S) ==
    UNION {returned[q] : q \in S}
    \cup {ret[t].cfg : t \in {w \in Procs : pc[w] = "done" /\ arg[w] \in S /\ ret[w].cfg # 0}}

\* C1: field-wise equal configurations get the identical apiConfig, and the
\* pipeline produces an apiConfig for them exactly once.
C1_DedupByValue ==
    \A p \in Ptrs :
        /\ Cardinality(HandedOut(SameIdentity(p))) <= 1
        /\ SumOver(succ, SameIdentity(p)) <= 1

\* C2: per identity at most one construction attempt is in flight, and a
\* goroutine blocked in getAPIConfig waits for an attempt of its identity.
C2_SingleFlightPerIdentity ==
    /\ \A p \in Ptrs :
          Cardinality({t \in Procs : InFlight(t) /\ arg[t] \in SameIdentity(p)}) <= 1
    /\ \A t \in Procs :
          pc[t] = "waiting" =>
              \E b \in Procs : InFlight(b) /\ arg[b] \in SameIdentity(arg[t])

\* C3: a failure is never cached.  No entry of the store holds an error; a
\* call that begins with the environment ready and no attempt to wait for
\* returns an apiConfig (never an earlier error); and a call that returns an
\* apiConfig returns the one already handed out for that sdc, whatever
\* failed for other configurations meanwhile.
C3_FailureNotCached ==
    /\ \A k \in Keys : store[k].state # "err" /\ store[k].err = NoErr
    /\ \A t \in Procs :
          pc[t] = "done" =>
              /\ fresh[t] => (ret[t].err = NoErr /\ ret[t].cfg # 0)
              /\ (ret[t].cfg # 0 /\ returned[arg[t]] # {}) => ret[t].cfg \in returned[arg[t]]

\* C3 happens: getAPIConfig failed for c1a, later returns an apiConfig for
\* it, and c3 has had its apiConfig all along.
C3_Witness ==
    /\ failed["c1a"]
    /\ returned["c3"] # {}
    /\ \E t \in Procs : pc[t] = "done" /\ arg[t] = "c1a" /\ fresh[t] /\ ret[t].cfg # 0

\* C4: a goroutine inside getAPIConfig is blocked only while an attempt for
\* its own configuration is in flight: resolving one configuration never
\* waits for the construction of a different one.
C4_Isolation ==
    \A t \in Procs :
        pc[t] = "waiting" =>
            \E b \in Procs : b # t /\ InFlight(b) /\ SDC(arg[b]) = SDC(arg[t])

\* C4 happens: constructions for c1a and for c3 are in flight together, and
\* one of them has already run newAPIConfig while the other has not.
C4_Witness ==
    \E a, b \in Procs :
        /\ pc[a] = "building" /\ arg[a] = "c1a"
        /\ pc[b] = "built" /\ arg[b] = "c3"

\* C5: once an apiConfig has been returned for a configuration, later calls
\* with that configuration return it and run no construction, and no two
\* apiConfig instances exist for one identity.
C5_StablePerIdentity ==
    \A p \in Ptrs :
        LET S == SameIdentity(p) IN
        /\ Cardinality(HandedOut(S)) <= 1
        /\ Cardinality({store[GetKey(q)].inst : q \in S} \ {0}) <= 1
        /\ (UNION {returned[q] : q \in S}) # {} =>
              \A t \in Procs : ~(InFlight(t) /\ arg[t] \in S)

(***************************************************************************)
(* One application of newHostClient or of newAPIConfig to a configuration  *)
(* and an environment drawn from bounded sets.                             *)
(***************************************************************************)
HTTP == <<"h","t","t","p">>
HTTPS == <<"h","t","t","p","s">>

\* the parts a configured api_server is written from
URLParts ==
    [scheme : {HTTP, HTTPS, <<"H","T","T","P","S">>},
     host   : {<<"a">>, <<"A">>, <<"[",":",":","1","]">>},
     port   : {<<>>, <<":","8">>},
     tail   : {<<>>, <<"/">>}]

MkURL(u) == u.scheme \o <<":","/","/">> \o u.host \o u.port \o u.tail

NoURL == [scheme |-> <<>>, host |-> <<>>, port |-> <<>>, tail |-> <<>>]

\* the explicit auth settings a configuration carries
AuthSettings ==
    { [BasicAuth |-> Nil, BearerToken |-> "", BearerTokenFile |-> ""],
      [BasicAuth |-> Nil, BearerToken |-> "tok", BearerTokenFile |-> ""],
      [BasicAuth |-> Nil, BearerToken |-> "", BearerTokenFile |-> CfgTokenFile],
      [BasicAuth |-> Nil, BearerToken |-> "tok", BearerTokenFile |-> CfgTokenFile] }

MkSDC(url, a) ==
    [APIServer |-> url, BasicAuth |-> a.BasicAuth, BearerToken |-> a.BearerToken,
     BearerTokenFile |-> a.BearerTokenFile, TLSConfig |-> Nil,
     Namespaces |-> <<"ns1">>, Selectors |-> <<>>]

EnvSet ==
    [host  : {<<>>, <<"a">>, <<":",":","1">>},
     port  : {<<>>, <<"8">>},
     files : SUBSET {<<CAFilePath>>, <<TokenFilePath>>, <<BaseDir, CfgTokenFile>>}]

BuildInit ==
    /\ env \in EnvSet
    /\ CacheInit
    /\ \E u \in URLParts \cup {NoURL}, a \in AuthSettings :
          buildIn = [parts |-> u,
                     sdc |-> MkSDC(IF u = NoURL THEN <<>> ELSE MkURL(u), a)]
    /\ buildOut = Unused
    /\ fetchIn = Unused /\ fetchOut = Unused
    /\ ShareIdle

\* newHostClient(sdc.APIServer, ac) with the ac the explicit settings parse to
\* (nil when they do not parse)
RunNewHostClient ==
    /\ buildIn # Unused /\ buildOut = Unused
    /\ LET sdc == buildIn.sdc
           a == NewConfig(BaseDir, sdc.BasicAuth, sdc.BearerToken, sdc.BearerTokenFile,
                          sdc.TLSConfig, env.files)
       IN  buildOut' = [op |-> "newHostClient", acIn |-> a.ac,
                        res |-> newHostClient(sdc.APIServer, a.ac, env)]
    /\ UNCHANGED <<env, cacheVars, buildIn, fetchIn, fetchOut, shareVars>>

RunNewAPIConfig ==
    /\ buildIn # Unused /\ buildOut = Unused
    /\ buildOut' = [op |-> "newAPIConfig", acIn |-> Nil,
                    res |-> newAPIConfig(buildIn.sdc, BaseDir, env)]
    /\ UNCHANGED <<env, cacheVars, buildIn, fetchIn, fetchOut, shareVars>>

\* getAPIConfig(sdc, baseDir) on a map that holds nothing under sdc: Get runs
\* the closure, records the attempt and getAPIConfig returns; obj is the
\* object the returned pointer refers to, entry what the map holds afterwards
RunGetAPIConfig ==
    /\ buildIn # Unused /\ buildOut = Unused
    /\ GetLookup(AbsentEntry) = "build"
    /\ LET r == newAPIConfig(buildIn.sdc, BaseDir, env)
           inst == IF r.err = NoErr THEN 1 ELSE 0
       IN  buildOut' = [op |-> "getAPIConfig", acIn |-> Nil,
                        res |-> getAPIConfigResult(inst, r.err),
                        obj |-> r.cfg,
                        entry |-> GetStoreResult(inst, r.err)]
    /\ UNCHANGED <<env, cacheVars, buildIn, fetchIn, fetchOut, shareVars>>

BuildNext == RunNewHostClient \/ RunNewAPIConfig \/ RunGetAPIConfig

SpecBuild == BuildInit /\ [][BuildNext]_vars

RanHostClient == buildOut # Unused /\ buildOut.op = "newHostClient"
RanAPIConfig == buildOut # Unused /\ buildOut.op = "newAPIConfig"
RanGetAPIConfig == buildOut # Unused /\ buildOut.op = "getAPIConfig"
InCluster == buildIn # Unused /\ buildIn.sdc.APIServer = <<>>

\* C6: in-cluster mode with the host or the port variable unset: newHostClient
\* returns no client and an error naming the unset variable, the host
\* variable first.
C6_MissingEnvVar ==
    (RanHostClient /\ InCluster /\ (env.host = <<>> \/ env.port = <<>>)) =>
        LET r == buildOut.res IN
        /\ r.err # NoErr
        /\ r.hc = Nil /\ r.ac = Nil
        /\ r.err[1] = "cannot find"
        /\ r.err[2] = IF env.host = <<>> THEN HostVar ELSE PortVar

\* C6 happens: the host is set, the port is not, and the error names the port
C6_Witness ==
    /\ RanHostClient /\ InCluster
    /\ env.host # <<>> /\ env.port = <<>>
    /\ buildOut.res.err # NoErr /\ buildOut.res.err[2] = PortVar

BothVarsSet == env.host # <<>> /\ env.port # <<>>
ServiceAccountFiles == {<<CAFilePath>>, <<TokenFilePath>>}

\* what C7 says of an in-cluster construction whose server URL should be url
BootstrapAs(url) ==
    LET r == buildOut.res IN
    /\ ~(ServiceAccountFiles \subseteq env.files) => (r.err # NoErr /\ r.cfg = Nil)
    /\ r.err = NoErr =>
          /\ r.cfg.server = url
          /\ r.cfg.authConfig.Authorization = <<"Bearer">> \o FileContent(<<TokenFilePath>>)
          /\ r.cfg.authConfig.TLSRootCA = FileContent(<<CAFilePath>>)
          /\ r.cfg.client.TLSConfig = [RootCAs |-> FileContent(<<CAFilePath>>)]

\* C7 as claimed: in-cluster mode with both variables set: the server is
\* exactly "https://" + host + ":" + port, the auth and TLS material is that
\* of the well-known token and CA files, and without those files the
\* construction fails with no apiConfig.
C7_BootstrapExact ==
    (RanAPIConfig /\ InCluster /\ BothVarsSet) =>
        BootstrapAs(HTTPS \o <<":","/","/">> \o env.host \o <<":">> \o env.port)

\* C7 as amended: the same, with the server "https://" + host + ":" + port
\* where a host that contains a colon (an IPv6 address) stands in square
\* brackets.
C7_BootstrapJoined ==
    (RanAPIConfig /\ InCluster /\ BothVarsSet) =>
        BootstrapAs(HTTPS \o <<":","/","/">>
                    \o (IF \E i \in 1..Len(env.host) : env.host[i] = ":"
                        THEN <<"[">> \o env.host \o <<"]">> ELSE env.host)
                    \o <<":">> \o env.port)

\* C7 happens: an IPv6 host, a configuration that carries its own bearer
\* token, and a construction that succeeds
C7_Witness ==
    /\ RanAPIConfig /\ InCluster /\ BothVarsSet
    /\ env.host = <<":",":","1">>
    /\ buildIn.sdc.BearerToken = "tok"
    /\ buildOut.res.err = NoErr
    /\ buildOut.res.cfg.server = HTTPS \o <<":","/","/","[",":",":","1","]",":","8">>

\* C8: for an explicit server URL the resolved hostPort is host:443 (https)
\* or host:80 (otherwise) when the URL names no port, and the host with its
\* port as written when it names one.  Hosts are compared up to letter case
\* (the URL parser lower-cases the host).
C8_DefaultPort ==
    (RanHostClient /\ ~InCluster /\ buildOut.res.err = NoErr) =>
        LET u == buildIn.parts
            secure == Lower(u.scheme) = HTTPS
        IN  buildOut.res.hostPort =
                IF u.port = <<>>
                THEN Lower(u.host) \o <<":">> \o (IF secure THEN <<"4","4","3">> ELSE <<"8","0">>)
                ELSE Lower(u.host) \o u.port

(***************************************************************************)
(* One application of getAPIResponse to an apiConfig and a response drawn  *)
(* from bounded sets.                                                      *)
(***************************************************************************)
ByteSet == {7, 31}

RECURSIVE SeqsUpTo(_, _)
SeqsUpTo(S, n) ==
    IF n = 0 THEN {<<>>}
    ELSE LET shorter == SeqsUpTo(S, n - 1)
         IN  shorter \cup {Append(q, x) : q \in shorter, x \in S}

Payloads == SeqsUpTo(ByteSet, MaxBody)

\* the bodies a server may send, each with how it was made from a payload
Bodies ==
    {[made |-> "raw", plain |-> b, bytes |-> b] : b \in Payloads}
    \cup {[made |-> "gzip", plain |-> b, bytes |-> Gzip(b)] : b \in Payloads}
    \cup {[made |-> "truncated", plain |-> b,
           bytes |-> SubSeq(Gzip(b), 1, Len(Gzip(b)) - 1)] : b \in Payloads}
    \cup {[made |-> "badsum", plain |-> b,
           bytes |-> <<31, 139>> \o <<1, Len(b), 255 - Len(b)>> \o b
                     \o <<(Checksum(b) + 1) % 256, Len(b)>>] : b \in Payloads}

Statuses == {StatusOK, 404, 500}
Encodings == {"", "gzip", "identity"}

ReadyEnv == [host |-> <<"a">>, port |-> <<"8">>, files |-> ServiceAccountFiles]

\* the apiConfig objects fetched with: in-cluster and explicit, without and
\* with selectors
FetchConfigs ==
    { newAPIConfig(sdc, BaseDir, ReadyEnv).cfg :
        sdc \in { InClusterSDC, ExplicitSDC,
                  [ExplicitSDC EXCEPT !.BearerToken = "",
                      !.Selectors = <<[Role |-> "pod", Label |-> "app=x", Field |-> ""]>>] } }

FetchInit ==
    /\ env = ReadyEnv
    /\ CacheInit
    /\ buildIn = Unused /\ buildOut = Unused
    /\ \E c \in FetchConfigs, role \in {"pod", "node"}, b \in Bodies,
          st \in Statuses, ce \in Encodings, kind \in {"ok", "neterr"} :
          /\ kind = "neterr" => (b.bytes = <<>> /\ b.made = "raw" /\ st = StatusOK /\ ce = "")
          /\ fetchIn = [cfg |-> c, role |-> role, path |-> <<"/api/v1/pods">>,
                        made |-> b.made, plain |-> b.plain,
                        resp |-> [kind |-> kind, status |-> st,
                                  contentEncoding |-> ce, body |-> b.bytes]]
    /\ fetchOut = Unused
    /\ ShareIdle

Fetch ==
    /\ fetchIn # Unused /\ fetchOut = Unused
    /\ fetchOut' = [req |-> requestOf(fetchIn.cfg, fetchIn.role, fetchIn.path),
                    res |-> getAPIResponse(fetchIn.cfg, fetchIn.role, fetchIn.path,
                                           fetchIn.resp)]
    /\ UNCHANGED <<env, cacheVars, buildIn, buildOut, fetchIn, shareVars>>

SpecFetch == FetchInit /\ [][Fetch]_vars

Fetched == fetchOut # Unused
Answered == Fetched /\ fetchIn.resp.kind = "ok"

\* C9: a response with a status other than 200 makes getAPIResponse return
\* no data and an error that carries that status code and the request URL,
\* whatever the Content-Encoding and the body.
C9_StatusRejected ==
    (Answered /\ fetchIn.resp.status # StatusOK) =>
        LET r == fetchOut.res IN
        /\ r.data = NilData
        /\ r.err # Nil
        /\ "status" \in DOMAIN r.err /\ r.err.status = fetchIn.resp.status
        /\ r.err.url = requestURLOf(fetchIn.cfg, fetchIn.role, fetchIn.path)

\* C10: on a 200 response, a gzip-declared body that is the compression of
\* B yields exactly B, a body without the gzip header is returned unchanged,
\* and a gzip-declared body that is no gzip stream yields an error and no
\* data.
C10_GzipRoundTrip ==
    (Answered /\ fetchIn.resp.status = StatusOK) =>
        LET r == fetchOut.res
            gz == fetchIn.resp.contentEncoding = "gzip"
        IN  /\ (gz /\ fetchIn.made = "gzip") => (r.err = Nil /\ r.data = fetchIn.plain)
            /\ ~gz => (r.err = Nil /\ r.data = fetchIn.resp.body)
            /\ (gz /\ fetchIn.made # "gzip") => (r.err # Nil /\ r.data = NilData)

\* C10 happens: a two-byte payload sent compressed comes back as sent
C10_Witness ==
    /\ Answered /\ fetchIn.resp.status = StatusOK
    /\ fetchIn.resp.contentEncoding = "gzip" /\ fetchIn.made = "gzip"
    /\ Len(fetchIn.plain) = 2
    /\ fetchIn.resp.body # fetchIn.plain
    /\ fetchOut.res.data = fetchIn.plain

(***************************************************************************)
(* Mode selection.                                                         *)
(***************************************************************************)
\* the environments that differ from e only in the two variables and in
\* the well-known service-account files
SameConfigFiles(e) ==
    {e2 \in EnvSet : e2.files \ ServiceAccountFiles = e.files \ ServiceAccountFiles}

\* the authorization value the explicit settings of sdc stand for
ExplicitAuthorization(sdc) ==
    IF sdc.BearerTokenFile # ""
    THEN <<"Bearer">> \o FileContent(<<BaseDir, sdc.BearerTokenFile>>)
    ELSE IF sdc.BearerToken # "" THEN <<"Bearer", sdc.BearerToken>>
    ELSE <<>>

\* C11: with a server URL configured, the construction does not depend on
\* the two environment variables nor on the well-known CA and token files:
\* its outcome is the same in every environment that agrees on the
\* configuration's own files, the server of the apiConfig is the configured
\* URL unchanged, and its auth material is that of the configuration.
C11_ModeSelection ==
    (RanAPIConfig /\ ~InCluster) =>
        LET r == buildOut.res
            sdc == buildIn.sdc
        IN  /\ \A e2 \in SameConfigFiles(env) : newAPIConfig(sdc, BaseDir, e2) = r
            /\ r.err = NoErr =>
                  /\ r.cfg.server = sdc.APIServer
                  /\ r.cfg.authConfig.Authorization = ExplicitAuthorization(sdc)
                  /\ r.cfg.authConfig.TLSRootCA = <<>>

\* C11 happens: a server URL and a bearer token are configured, the
\* environment offers both variables and both well-known files, and the
\* apiConfig carries the configured token
C11_Witness ==
    /\ RanAPIConfig /\ ~InCluster
    /\ BothVarsSet /\ ServiceAccountFiles \subseteq env.files
    /\ buildOut.res.err = NoErr
    /\ buildOut.res.cfg.authConfig.Authorization = <<"Bearer", "tok">>
    /\ buildOut.res.cfg.server = buildIn.sdc.APIServer

(***************************************************************************)
(* The request getAPIResponse sends.                                       *)
(***************************************************************************)
\* the apiConfig restricts the listing for the role: it names a namespace,
\* or a selector of that role with a label or a field expression
HasRestriction(cfg, role) ==
    \/ cfg.namespaces # <<>>
    \/ \E i \in 1..Len(cfg.selectors) :
          /\ cfg.selectors[i].Role = role
          /\ (cfg.selectors[i].Label # "" \/ cfg.selectors[i].Field # "")

\* C12: every request carries Accept-Encoding: gzip; it carries the
\* Authorization header exactly when the apiConfig has auth material with a
\* non-empty authorization value, and then that value; its URI is the path,
\* followed by "?" and the query only when there is a query.
C12_RequestShape ==
    Fetched =>
        LET q == fetchOut.req
            c == fetchIn.cfg
            query == joinSelectors(fetchIn.role, c.namespaces, c.selectors)
        IN  /\ q.acceptEncoding = "gzip"
            /\ (q.authorization # <<>>) <=> (c.authConfig # Nil /\ c.authConfig.Authorization # <<>>)
            /\ q.authorization # <<>> => q.authorization = c.authConfig.Authorization
            /\ (query # <<>>) <=> HasRestriction(c, fetchIn.role)
            /\ q.uri = IF HasRestriction(c, fetchIn.role)
                       THEN fetchIn.path \o <<"?">> \o query
                       ELSE fetchIn.path

\* C12 happens: an apiConfig without authorization whose only selector is
\* for another role: the request has no Authorization header and no query
C12_Witness ==
    /\ Fetched
    /\ fetchIn.cfg.selectors # <<>> /\ ~HasRestriction(fetchIn.cfg, fetchIn.role)
    /\ fetchOut.req.authorization = <<>>
    /\ fetchOut.req.uri = fetchIn.path
    /\ fetchOut.req.acceptEncoding = "gzip"


(***************************************************************************)
(* Goroutines fetching concurrently with one shared *apiConfig.  Each call *)
(* of getAPIResponse is split where the goroutine can be pre-empted:       *)
(* after composing the request (lines 58-71), after cfg.client.Do and the  *)
(* handling of its response (lines 74-92).  fetchIn keeps the value the    *)
(* context had when newAPIConfig returned it.                              *)
(***************************************************************************)
SharePaths == {<<"/api/v1/pods">>, <<"/api/v1/nodes">>}
ShareRoles == {"pod", "node"}

\* what the client may yield: a network error, a plain 200, a gzip 200, a
\* gzip-declared body that is no gzip stream, a 404
ShareResponses ==
    { [kind |-> "neterr", status |-> StatusOK, contentEncoding |-> "", body |-> <<>>],
      [kind |-> "ok", status |-> StatusOK, contentEncoding |-> "", body |-> <<7>>],
      [kind |-> "ok", status |-> StatusOK, contentEncoding |-> "gzip", body |-> Gzip(<<7>>)],
      [kind |-> "ok", status |-> StatusOK, contentEncoding |-> "gzip", body |-> <<7>>],
      [kind |-> "ok", status |-> 404, contentEncoding |-> "", body |-> <<7>>] }

ShareInit ==
    /\ env = ReadyEnv
    /\ CacheInit
    /\ buildIn = Unused /\ buildOut = Unused
    /\ \E c \in FetchConfigs :
          /\ fetchIn = [cfg |-> c]
          /\ ctx = c
    /\ fetchOut = Unused
    /\ fpc = [t \in Procs |-> "idle"]
    /\ flocal = [t \in Procs |-> Unused]

\* lines 57-71: goroutine t enters getAPIResponse(ctx, role, path) and
\* composes its request
FetchCompose(t, role, path) ==
    /\ ctx # Unused /\ fpc[t] = "idle"
    /\ LET query == joinSelectors(role, ctx.namespaces, ctx.selectors) IN
       flocal' = [flocal EXCEPT ![t] =
                    [role |-> role, arg |-> path,
                     path |-> IF Len(query) > 0 THEN path \o <<"?">> \o query ELSE path,
                     requestURL |-> requestURLOf(ctx, role, path),
                     req |-> requestOf(ctx, role, path),
                     res |-> Unused]]
    /\ ctx' = cfgAfterCompose(ctx, role, path)
    /\ fpc' = [fpc EXCEPT ![t] = "composed"]
    /\ UNCHANGED <<env, cacheVars, buildIn, buildOut, fetchIn, fetchOut>>

\* lines 74-92: cfg.client.Do yields resp and goroutine t turns it into its
\* return values
FetchDo(t, resp) ==
    /\ fpc[t] = "composed"
    /\ flocal' = [flocal EXCEPT ![t].res = responseOf(flocal[t].requestURL, resp)]
    /\ fpc' = [fpc EXCEPT ![t] = "done"]
    /\ UNCHANGED <<env, cacheVars, buildIn, buildOut, fetchIn, fetchOut, ctx>>

\* lines 75, 81, 89, 92: goroutine t returns; its locals die
FetchReturn(t) ==
    /\ fpc[t] = "done"
    /\ flocal' = [flocal EXCEPT ![t] = Unused]
    /\ fpc' = [fpc EXCEPT ![t] = "idle"]
    /\ UNCHANGED <<env, cacheVars, buildIn, buildOut, fetchIn, fetchOut, ctx>>

ShareNext ==
    \/ \E t \in Procs, role \in ShareRoles, path \in SharePaths : FetchCompose(t, role, path)
    \/ \E t \in Procs, resp \in ShareResponses : FetchDo(t, resp)
    \/ \E t \in Procs : FetchReturn(t)

SpecShare == ShareInit /\ [][ShareNext]_vars

\* goroutine t is inside getAPIResponse
Fetching(t) == fpc[t] # "idle"

\* C13: however many fetches have run or are running, the shared context's
\* server, hostPort, auth material, namespaces and selectors are those it
\* was constructed with, and each fetch's path, URL, request and error are
\* composed from its own role and path and the construction-time context
\* only.
C13_ContextUnchanged ==
    ctx # Unused =>
        /\ ctx.server = fetchIn.cfg.server
        /\ ctx.hostPort = fetchIn.cfg.hostPort
        /\ ctx.authConfig = fetchIn.cfg.authConfig
        /\ ctx.namespaces = fetchIn.cfg.namespaces
        /\ ctx.selectors = fetchIn.cfg.selectors
        /\ \A t \in Procs : Fetching(t) =>
              LET l == flocal[t]
                  own == requestOf(fetchIn.cfg, l.role, l.arg)
              IN  /\ l.path = own.uri
                  /\ l.requestURL = fetchIn.cfg.server \o own.uri
                  /\ l.req = own
                  /\ (fpc[t] = "done" /\ l.res.err # Nil) => l.res.err.url = l.requestURL

\* C13 witness: one goroutine has failed a fetch of the pods path with a
\* selector query while another is in the middle of fetching the nodes path
\* without a query, both with the one context.
C13_Witness ==
    /\ ctx # Unused /\ ctx = fetchIn.cfg
    /\ \E t, u \in Procs :
          /\ t # u
          /\ fpc[t] = "done" /\ fpc[u] = "composed"
          /\ flocal[t].res.err # Nil
          /\ flocal[t].role = "pod" /\ flocal[u].role = "node"
          /\ flocal[t].path # flocal[t].arg
          /\ flocal[u].path = flocal[u].arg
          /\ flocal[t].arg # flocal[u].arg


\* the outcome of parsing the configuration's own auth settings
ExplicitAuth ==
    NewConfig(BaseDir, buildIn.sdc.BasicAuth, buildIn.sdc.BearerToken,
              buildIn.sdc.BearerTokenFile, buildIn.sdc.TLSConfig, env.files)

\* C14: getAPIConfig returns a context or an error, never both and never
\* neither; when the configuration's own auth settings do not parse, it
\* returns the parse error, no context and no client exist and the map holds
\* no entry, with and without a configured server.
C14_OneOfContextOrError ==
    RanGetAPIConfig =>
        LET r == buildOut.res IN
        /\ (r.cfg # 0) # (r.err # NoErr)
        /\ r.cfg # 0 => (buildOut.obj # Nil /\ buildOut.entry.state = "ok"
                         /\ buildOut.entry.inst = r.cfg)
        /\ r.err # NoErr => (buildOut.obj = Nil /\ buildOut.entry = AbsentEntry)
        /\ ExplicitAuth.err # NoErr =>
              /\ r.cfg = 0
              /\ r.err = <<"cannot parse auth config:">> \o ExplicitAuth.err
              /\ buildOut.obj = Nil
              /\ buildOut.entry = AbsentEntry

\* C14 witness: bootstrap mode in a ready environment, where the service
\* account would have given a client, with own settings that do not parse:
\* getAPIConfig has returned the parse error.
C14_Witness ==
    /\ RanGetAPIConfig /\ InCluster
    /\ EnvReady(env)
    /\ newHostClient(<<>>, Nil, env).err = NoErr
    /\ ExplicitAuth.err # NoErr
    /\ buildOut.res.cfg = 0
    /\ buildOut.res.err[1] = "cannot parse auth config:"
    /\ buildOut.entry = AbsentEntry


\* a host:port text names a port: a bracketed IPv6 literal is followed by
\* ":", any other host contains ":"
HasPort(hp) ==
    IF Len(hp) > 0 /\ hp[1] = "["
    THEN \E i \in 1..(Len(hp) - 1) : hp[i] = "]" /\ hp[i + 1] = ":"
    ELSE Contains(hp, <<":">>)

\* C15: a context that newAPIConfig has returned names a port in its
\* hostPort, its client is bound to that hostPort, which is also the Host of
\* the requests made with it, the client is marked TLS exactly when the
\* server URL's scheme is https (in any letter case), and a TLS
\* configuration is attached only to a client marked TLS.
C15_Consistent ==
    (RanAPIConfig /\ buildOut.res.err = NoErr) =>
        LET cfg == buildOut.res.cfg
            scheme == Lower(SubSeq(cfg.server, 1, IndexOf(cfg.server, <<":">>, 1) - 1))
        IN  /\ HasPort(cfg.hostPort)
            /\ cfg.client.Addr = cfg.hostPort
            /\ \A role \in ShareRoles, path \in SharePaths :
                  requestOf(cfg, role, path).host = cfg.hostPort
            /\ cfg.client.IsTLS <=> scheme = HTTPS
            /\ cfg.client.TLSConfig # Nil => cfg.client.IsTLS

====
